---- MODULE Spec2Model ----
(***************************************************************************)
(* anthologist: batch dependency operations over several poetry projects.  *)
(*                                                                         *)
(* One behaviour is one invocation of one of the four click commands       *)
(* (add, update, remove, lock) of src/anthologist/main.py.  Init draws the *)
(* command, its options, the project list and the filesystem; the actions  *)
(* are the steps of the command's body, cut at the points where the        *)
(* program blocks in subprocess.run.                                       *)
(*                                                                         *)
(* Text is modelled as a sequence of characters, so that the f-string of   *)
(* main.py:77 is a real concatenation.  Paths are never taken apart by the *)
(* program and are modelled as atoms.  The filesystem is sampled once per  *)
(* invocation (spec 4.1 leaves later changes of it aside).                 *)
(***************************************************************************)
EXTENDS Naturals, Sequences, FiniteSets

VARIABLES
    op,           \* the click command invoked
    dependency,   \* positional argument of add / remove
    version,      \* --version (add)
    projects,     \* --projects, in command-line order
    group,        \* --group / -G (add, remove)
    optional,     \* --optional (add)
    lock,         \* --lock (add, update, remove)
    sync,         \* --sync (update)
    no_update,    \* --no-update (lock)
    dirs,         \* the paths for which os.path.isdir is true
    pc,           \* "start", "loop", "wait" (inside subprocess.run), "done"
    not_projects, \* what check_projects_exist returned
    stderr,       \* the reports written with click.secho(..., err=True)
    dep,          \* local dep of add
    extra_args,   \* local extra_args of add / update / remove
    cmd,          \* local cmd of lock
    idx,          \* 1-based position of the for loop in projects
    bar,          \* position of the click progress bar
    running,      \* the child processes started and not yet exited
    log           \* the completed subprocess.run calls, in order

inputs == <<op, dependency, version, projects, group, optional, lock, sync,
            no_update, dirs>>
locals == <<not_projects, stderr, dep, extra_args, cmd, idx, bar>>
vars == <<inputs, pc, locals, running, log>>

----------------------------------------------------------------------------
(* Bounds and input domains *)

MaxProjects == 3

\* Python's None: a one-element sequence whose element is neither a
\* character nor a path, so that it compares with every text and every list.
None == <<"None">>

\* The literal tokens of main.py, as texts.
Poetry       == <<"p","o","e","t","r","y">>
VerbAdd      == <<"a","d","d">>
VerbUpdate   == <<"u","p","d","a","t","e">>
VerbRemove   == <<"r","e","m","o","v","e">>
VerbLock     == <<"l","o","c","k">>
FlagGroup    == <<"-","-","g","r","o","u","p">>
FlagOptional == <<"-","-","o","p","t","i","o","n","a","l">>
FlagLock     == <<"-","-","l","o","c","k">>
FlagSync     == <<"-","-","s","y","n","c">>
FlagNoUpdate == <<"-","-","n","o","-","u","p","d","a","t","e">>

Paths        == {"/a", "/b", "/x"}
Dependencies == {<<"r","q">>, FlagGroup}
Versions     == {<<>>, <<"2",".","1">>}
Groups       == {None, <<>>, <<"d","e","v">>, FlagGroup}
ExitStatuses == {0, 1}

RECURSIVE SeqsUpTo(_, _)
SeqsUpTo(S, n) ==
    IF n = 0 THEN {<<>>}
    ELSE LET shorter == SeqsUpTo(S, n - 1)
         IN  shorter \cup {Append(s, x) : s \in shorter, x \in S}

----------------------------------------------------------------------------
(* helpers.py *)

check_is_directory(path) == path \in dirs

\* The loop of check_projects_exist from position i on, with the list built
\* so far.
RECURSIVE collect(_, _, _)
collect(ps, i, not_directories) ==
    IF i > Len(ps) THEN not_directories
    ELSE collect(ps, i + 1,
                 IF ~check_is_directory(ps[i])
                 THEN Append(not_directories, ps[i])
                 ELSE not_directories)

\* Mutant: the loop returns at the first path that is not a directory.
check_projects_exist_first(ps) ==
    LET not_directories == collect(ps, 1, <<>>)
    IN  IF not_directories = <<>> THEN None ELSE <<not_directories[1]>>

\* `not_directories or None`: an empty list is falsy.
check_projects_exist(ps) ==
    LET not_directories == collect(ps, 1, <<>>)
    IN  IF not_directories = <<>> THEN None ELSE not_directories

\* Truthiness of a value that is None, a text or a list.
Truthy(v) == v # None /\ v # <<>>

----------------------------------------------------------------------------
Init ==
    /\ op \in {"add", "update", "remove", "lock"}
    /\ projects \in SeqsUpTo(Paths, MaxProjects)
    /\ dirs \in SUBSET Paths
    /\ dependency \in (IF op \in {"add", "remove"} THEN Dependencies ELSE {None})
    /\ version \in (IF op = "add" THEN Versions ELSE {<<>>})
    /\ group \in (IF op \in {"add", "remove"} THEN Groups ELSE {None})
    /\ optional \in (IF op = "add" THEN BOOLEAN ELSE {FALSE})
    /\ lock \in (IF op \in {"add", "update", "remove"} THEN BOOLEAN ELSE {FALSE})
    /\ sync \in (IF op = "update" THEN BOOLEAN ELSE {FALSE})
    /\ no_update \in (IF op = "lock" THEN BOOLEAN ELSE {FALSE})
    /\ pc = "start"
    /\ not_projects = None
    /\ stderr = <<>>
    /\ dep = None
    /\ extra_args = <<>>
    /\ cmd = <<>>
    /\ idx = 1
    /\ bar = 0
    /\ running = {}
    /\ log = <<>>

----------------------------------------------------------------------------
(* main.py: argument composition *)

\* Mutant: the separator is written whether or not a version is given.
add_dep_always_sep == dependency \o <<"=">> \o version

\* add, lines 75-77: dep = dependency, or f"{dependency}={version}".
add_dep ==
    IF Truthy(version) THEN dependency \o <<"=">> \o version ELSE dependency

\* Mutant: the flags are chained with elif, so one option hides the next.
add_extra_args_elif ==
    IF Truthy(group) THEN <<FlagGroup, group>>
    ELSE IF optional THEN <<FlagOptional>>
    ELSE IF lock THEN <<FlagLock>>
    ELSE <<>>

\* add, lines 79-85.
add_extra_args ==
    (IF Truthy(group) THEN <<FlagGroup, group>> ELSE <<>>)
    \o (IF optional THEN <<FlagOptional>> ELSE <<>>)
    \o (IF lock THEN <<FlagLock>> ELSE <<>>)

\* update, lines 140-144.
update_extra_args ==
    (IF lock THEN <<FlagLock>> ELSE <<>>)
    \o (IF sync THEN <<FlagSync>> ELSE <<>>)

\* Mutant: the group flag is added without its value.
remove_extra_args_no_value ==
    (IF Truthy(group) THEN <<FlagGroup>> ELSE <<>>)
    \o (IF lock THEN <<FlagLock>> ELSE <<>>)

\* remove, lines 202-206.
remove_extra_args ==
    (IF Truthy(group) THEN <<FlagGroup, group>> ELSE <<>>)
    \o (IF lock THEN <<FlagLock>> ELSE <<>>)

\* lock, lines 255-257.
lock_cmd ==
    <<Poetry, VerbLock>> \o (IF no_update THEN <<FlagNoUpdate>> ELSE <<>>)

\* The first argument of subprocess.run, as each loop body writes it.
add_argv    == <<Poetry, VerbAdd, dep>> \o extra_args
update_argv == <<Poetry, VerbUpdate>> \o extra_args
remove_argv == <<Poetry, VerbRemove, dependency>> \o extra_args
\* lock passes the literal ["poetry", "lock"], not the cmd it has built.
lock_argv   == <<Poetry, VerbLock>>

argv ==
    CASE op = "add"    -> add_argv
      [] op = "update" -> update_argv
      [] op = "remove" -> remove_argv
      [] op = "lock"   -> lock_argv

----------------------------------------------------------------------------
(* main.py: the command bodies up to the loop *)

\* Mutant: the report is written but the return is missing.
Abort_no_return(np) ==
    /\ stderr' = Append(stderr, np)
    /\ pc' = "loop"
    /\ UNCHANGED <<dep, extra_args, cmd, idx, bar>>

\* `if not_projects:` taken: one report on the error stream, then return.
Abort(np) ==
    /\ stderr' = Append(stderr, np)
    /\ pc' = "done"
    /\ UNCHANGED <<dep, extra_args, cmd, idx, bar>>

\* Validation passed: the locals are set and the progress bar is opened.
Proceed(d, ea, c) ==
    /\ dep' = d
    /\ extra_args' = ea
    /\ cmd' = c
    /\ pc' = "loop"
    /\ UNCHANGED <<stderr, idx, bar>>

Add ==
    /\ pc = "start" /\ op = "add"
    /\ not_projects' = check_projects_exist(projects)
    /\ IF Truthy(not_projects')
       THEN Abort(not_projects')
       ELSE Proceed(add_dep, add_extra_args, cmd)
    /\ UNCHANGED <<inputs, running, log>>

Update ==
    /\ pc = "start" /\ op = "update"
    /\ not_projects' = check_projects_exist(projects)
    /\ IF Truthy(not_projects')
       THEN Abort(not_projects')
       ELSE Proceed(dep, update_extra_args, cmd)
    /\ UNCHANGED <<inputs, running, log>>

Remove ==
    /\ pc = "start" /\ op = "remove"
    /\ not_projects' = check_projects_exist(projects)
    /\ IF Truthy(not_projects')
       THEN Abort(not_projects')
       ELSE Proceed(dep, remove_extra_args, cmd)
    /\ UNCHANGED <<inputs, running, log>>

Lock ==
    /\ pc = "start" /\ op = "lock"
    /\ not_projects' = check_projects_exist(projects)
    /\ IF Truthy(not_projects')
       THEN Abort(not_projects')
       ELSE Proceed(dep, extra_args, lock_cmd)
    /\ UNCHANGED <<inputs, running, log>>

----------------------------------------------------------------------------
(* main.py: the loop over the progress bar *)

\* Mutant: the child is started without waiting for it (Popen for run).
SubprocessRun_no_wait ==
    /\ pc = "loop" /\ idx <= Len(projects)
    /\ running' = running \cup
           {[n |-> idx, cwd |-> projects[idx], args |-> argv, shell |-> TRUE]}
    /\ idx' = idx + 1
    /\ bar' = bar + 1
    /\ UNCHANGED <<inputs, pc, not_projects, stderr, dep, extra_args, cmd, log>>

\* Mutant: a flag is appended to extra_args inside the loop body.
SubprocessRun_append_in_loop ==
    /\ pc = "loop" /\ idx <= Len(projects)
    /\ running' = running \cup
           {[n |-> idx, cwd |-> projects[idx], args |-> argv, shell |-> TRUE]}
    /\ extra_args' = extra_args \o (IF lock THEN <<FlagLock>> ELSE <<>>)
    /\ pc' = "wait"
    /\ UNCHANGED <<inputs, not_projects, stderr, dep, cmd, idx, bar, log>>

\* Mutant: an empty project list falls back to the current directory.
SubprocessRun_default_cwd ==
    /\ pc = "loop" /\ (idx <= Len(projects) \/ (idx = 1 /\ projects = <<>>))
    /\ running' = running \cup
           {[n |-> idx, cwd |-> IF projects = <<>> THEN "." ELSE projects[idx],
             args |-> argv, shell |-> TRUE]}
    /\ pc' = "wait"
    /\ UNCHANGED <<inputs, locals, log>>

\* The loop body reaches subprocess.run(argv, cwd=project, shell=True): the
\* child is started and the program blocks in the call.
\* The call is recorded as the program makes it (argument list, cwd, shell);
\* how the platform's shell treats a list given with shell=True lies outside
\* the program and is not modelled.
SubprocessRun ==
    /\ pc = "loop" /\ idx <= Len(projects)
    /\ running' = running \cup
           {[n |-> idx, cwd |-> projects[idx], args |-> argv, shell |-> TRUE]}
    /\ pc' = "wait"
    /\ UNCHANGED <<inputs, locals, log>>

\* Mutant: subprocess.run with check=True, a failing command ends the batch.
ChildExit_check ==
    /\ pc = "wait"
    /\ \E p \in running, status \in ExitStatuses :
          /\ running' = running \ {p}
          /\ log' = Append(log, [n |-> p.n, cwd |-> p.cwd, args |-> p.args,
                                 shell |-> p.shell, status |-> status])
          /\ pc' = IF status = 0 THEN "loop" ELSE "done"
    /\ idx' = idx + 1
    /\ bar' = bar + 1
    /\ UNCHANGED <<inputs, not_projects, stderr, dep, extra_args, cmd>>

\* The child exits with some status; subprocess.run returns (check is not
\* set, so the status is dropped), the bar advances and the loop goes on.
ChildExit ==
    /\ pc = "wait"
    /\ \E p \in running, status \in ExitStatuses :
          /\ running' = running \ {p}
          /\ log' = Append(log, [n |-> p.n, cwd |-> p.cwd, args |-> p.args,
                                 shell |-> p.shell, status |-> status])
    /\ idx' = idx + 1
    /\ bar' = bar + 1
    /\ pc' = "loop"
    /\ UNCHANGED <<inputs, not_projects, stderr, dep, extra_args, cmd>>

\* The iterable is exhausted: the with block is left and the command returns.
Finish ==
    /\ pc = "loop" /\ idx > Len(projects)
    /\ pc' = "done"
    /\ UNCHANGED <<inputs, locals, running, log>>

Next ==
    \/ Add
    \/ Update
    \/ Remove
    \/ Lock
    \/ SubprocessRun
    \/ ChildExit
    \/ Finish

Spec == Init /\ [][Next]_vars

\* The program is one sequential thread that always takes its next step, and
\* every external command is taken to terminate.
FairSpec == Spec /\ WF_vars(Next)

----------------------------------------------------------------------------
(* Vocabulary of the properties *)

Range(s) == {s[i] : i \in 1..Len(s)}

\* Every subprocess.run call made so far, finished or not.
Calls ==
    running \cup {[n |-> e.n, cwd |-> e.cwd, args |-> e.args, shell |-> e.shell] :
                    e \in Range(log)}

\* The positions of projects that are not existing directories.
InvalidAt == {i \in 1..Len(projects) : projects[i] \notin dirs}
Valid == InvalidAt = {}

\* r is s with some entries left out, the rest in their order.
RECURSIVE IsSubseq(_, _)
IsSubseq(r, s) ==
    IF r = <<>> THEN TRUE
    ELSE IF s = <<>> THEN FALSE
    ELSE IF Head(r) = Head(s) THEN IsSubseq(Tail(r), Tail(s))
    ELSE IsSubseq(r, Tail(s))

Count(s, t) == Cardinality({i \in 1..Len(s) : s[i] = t})
B2N(b) == IF b THEN 1 ELSE 0

----------------------------------------------------------------------------
\* C1: once a command has validated its project list, the value returned by
\* check_projects_exist is exactly the entries of the list that are not
\* existing directories, in their original order and with duplicates kept
\* (a subsequence of the list, made of non-directories only, as long as the
\* number of non-directory positions), and it is None, never a non-empty
\* list, when the list is empty or holds directories only.
C1_ValidateSubsequence ==
    pc # "start" =>
        IF InvalidAt = {}
        THEN not_projects = None
        ELSE /\ not_projects # None
             /\ Len(not_projects) = Cardinality(InvalidAt)
             /\ \A i \in 1..Len(not_projects) : not_projects[i] \notin dirs
             /\ IsSubseq(not_projects, projects)

\* A list with a directory between two different non-directories was validated.
C1_Witness ==
    /\ pc = "done"
    /\ Len(projects) = 3
    /\ projects[1] \notin dirs /\ projects[2] \in dirs /\ projects[3] \notin dirs
    /\ projects[1] # projects[3]
    /\ not_projects = <<projects[1], projects[3]>>

\* C2: for each of the four commands, if some supplied path is not an
\* existing directory then no external command is ever started, not even for
\* the valid projects; the command ends after writing exactly one report,
\* which names exactly the invalid paths.
C2_AbortBeforeAnyCommand ==
    ~Valid =>
        /\ running = {} /\ log = <<>>
        /\ pc \in {"start", "done"}
        /\ pc = "start" => stderr = <<>>
        /\ pc = "done" =>
              /\ Len(stderr) = 1
              /\ Range(stderr[1]) = {projects[i] : i \in InvalidAt}

\* A batch mixing a valid and an invalid project was aborted.
C2_Witness ==
    /\ pc = "done"
    /\ ~Valid
    /\ \E i \in 1..Len(projects) : projects[i] \in dirs
    /\ Len(stderr) = 1
    /\ log = <<>>

\* C3: when every supplied project is valid, the commands are started one per
\* entry of the project list and in list order, the i-th with the i-th path
\* as working directory, and the batch is done only once every entry has had
\* its command, whatever the exit statuses were.
C3_OncePerProjectInOrder ==
    Valid =>
        /\ Len(log) + Cardinality(running) <= Len(projects)
        /\ \A i \in 1..Len(log) : log[i].n = i /\ log[i].cwd = projects[i]
        /\ \A p \in running : p.n = Len(log) + 1 /\ p.cwd = projects[p.n]
        /\ pc = "done" => Len(log) = Len(projects) /\ running = {}

\* update --sync over two different valid projects, the first command failing.
C3_Witness ==
    /\ pc = "done" /\ op = "update" /\ sync
    /\ Valid
    /\ Len(log) = 2
    /\ log[1].cwd # log[2].cwd
    /\ log[1].status = 1 /\ log[2].status = 0

\* C4: the command lock runs for each project contains --no-update exactly
\* when the no-update option is set.
C4_LockPassesNoUpdate ==
    op = "lock" =>
        \A e \in Calls : (FlagNoUpdate \in Range(e.args)) <=> no_update

\* C5: the third token of every command add runs is the dependency, then "=",
\* then the version when a non-empty version is given, and is the dependency
\* alone, with no separator after it, when the version is empty.
C5_AddDependencyToken ==
    op = "add" =>
        \A e \in Calls :
            LET t == e.args[3]
                k == Len(dependency)
            IN  /\ e.args[1] = Poetry /\ e.args[2] = VerbAdd
                /\ IF version # <<>>
                   THEN /\ Len(t) = k + 1 + Len(version)
                        /\ SubSeq(t, 1, k) = dependency
                        /\ t[k + 1] = "="
                        /\ SubSeq(t, k + 2, Len(t)) = version
                   ELSE t = dependency

\* add with a version has run a command.
C5_Witness ==
    /\ op = "add" /\ version # <<>>
    /\ log # <<>>
    /\ Len(log[1].args[3]) = Len(dependency) + 1 + Len(version)

\* C6 as stated: for remove with a non-empty group g, every command run holds
\* the token --group exactly once, followed by g; with no group given, the
\* command holds no --group token.
C6_GroupExactlyOnce ==
    op = "remove" =>
        \A e \in Calls :
            /\ Truthy(group) =>
                  /\ Count(e.args, FlagGroup) = 1
                  /\ \A i \in 1..Len(e.args) :
                        e.args[i] = FlagGroup =>
                            i < Len(e.args) /\ e.args[i + 1] = group
            /\ group = None => Count(e.args, FlagGroup) = 0

\* C6 amended: the same, for a dependency name and a group that are not
\* themselves the text "--group".
C6_GroupExactlyOnceOtherTexts ==
    (dependency # FlagGroup /\ group # FlagGroup) => C6_GroupExactlyOnce

\* remove --group dev --lock has run a command.
C6_Witness ==
    /\ op = "remove" /\ Truthy(group) /\ group # FlagGroup /\ lock
    /\ dependency # FlagGroup
    /\ log # <<>>
    /\ Count(log[1].args, FlagGroup) = 1

\* C7: a command called with an empty project list gets no invalid paths
\* from validation, writes no report, and starts no external command before
\* it is done.
C7_EmptyListRunsNothing ==
    projects = <<>> =>
        /\ ~Truthy(not_projects)
        /\ stderr = <<>>
        /\ running = {} /\ log = <<>>
        /\ bar = 0
        /\ pc \in {"start", "loop", "done"}

\* A command with no projects is done.
C7_Witness ==
    projects = <<>> /\ pc = "done" /\ idx = 1

\* C8: every command add runs is poetry add <dep> followed by --group <g>
\* iff a non-empty group is given, then --optional iff optional is set, then
\* --lock iff lock is set, and nothing else; every command update runs is
\* poetry update followed by --lock iff lock is set, then --sync iff sync is
\* set, and nothing else.
C8_FlagsIffOptionsInOrder ==
    \A e \in Calls :
        LET g == B2N(Truthy(group))
            n == Len(e.args)
        IN  /\ op = "add" =>
                  /\ e.args[1] = Poetry /\ e.args[2] = VerbAdd
                  /\ n = 3 + 2 * g + B2N(optional) + B2N(lock)
                  /\ g = 1 => e.args[4] = FlagGroup /\ e.args[5] = group
                  /\ optional => e.args[4 + 2 * g] = FlagOptional
                  /\ lock => e.args[n] = FlagLock
            /\ op = "update" =>
                  /\ e.args[1] = Poetry /\ e.args[2] = VerbUpdate
                  /\ n = 2 + B2N(lock) + B2N(sync)
                  /\ lock => e.args[3] = FlagLock
                  /\ sync => e.args[n] = FlagSync

\* add with group, --optional and --lock all given has run a command.
C8_Witness ==
    /\ op = "add" /\ Truthy(group) /\ optional /\ lock
    /\ log # <<>>
    /\ Len(log[1].args) = 7

\* C9: all the commands of one batch are run with the same argument list,
\* which is still what the locals compose after the loop has advanced: two
\* calls differ in their working directory (and position) only.
C9_SameArgumentsForEveryProject ==
    /\ \A e \in Calls : e.args = argv
    /\ \A e1, e2 \in Calls : e1.args = e2.args /\ e1.shell = e2.shell

\* remove with a group and --lock has run in two different projects.
C9_Witness ==
    /\ op = "remove" /\ Truthy(group) /\ lock
    /\ Len(log) = 2
    /\ log[1].cwd # log[2].cwd
    /\ log[1].args = log[2].args

\* C10: at most one external command is running at any time, the command of
\* position i+1 being started only when those before it have exited; a batch
\* of valid projects is done only after exactly len(projects) executions,
\* with the progress bar at len(projects); and, as every external command
\* terminates, every invocation is eventually done.
C10_OneAtATimeThenDone ==
    /\ [](/\ Cardinality(running) <= 1
          /\ \A p \in running : p.n = Len(log) + 1
          /\ (pc = "done" /\ Valid) =>
                /\ running = {}
                /\ Len(log) = Len(projects)
                /\ bar = Len(projects))
    /\ <>(pc = "done")

\* A batch of three projects has run to its end.
C10_Witness ==
    /\ pc = "done" /\ Valid
    /\ Len(projects) = 3
    /\ Len(log) = 3 /\ bar = 3 /\ running = {}

====
